---- MODULE Spec2Model ----
(***************************************************************************)
(* Polar H10 health checker: the acquisition / buffering pipeline of       *)
(* src/app.py (PyQt variant) and src/main.py (Dash variant).               *)
(*                                                                         *)
(* One BLE thread runs the two notification handlers (pmd_data_handler,    *)
(* heart_rate_notification_handler) one call at a time; a display reader   *)
(* (update_plot / update_graph) and an export reader (export_csv /         *)
(* generate_combined_csv) copy the module-level store under data_lock.     *)
(* ble_main, the coroutine the BLE thread's event loop runs, connects,     *)
(* subscribes both handlers, sleeps until cancelled and unsubscribes.      *)
(*                                                                         *)
(* Representation.  A byte is an integer 0..255 and a payload a sequence   *)
(* of bytes.  A point in time is an integer number of microseconds; the    *)
(* float sample_counter / SAMPLING_RATE is the number of microseconds it   *)
(* denotes.  The string strftime("%Y-%m-%d %H:%M:%S") yields is the whole  *)
(* number of seconds it denotes; in an exported row a timestamp text is    *)
(* the record of its whole seconds and its six-digit fraction, None where  *)
(* the text has no fraction.  None is the integer -1 (a heart rate is      *)
(* unsigned).                                                              *)
(***************************************************************************)
EXTENDS Integers, Sequences, FiniteSets, TLC

VARIABLES
    \* ---- module-level state of app.py / main.py
    ecg_session_data,   \* list of ECG sample values
    ecg_session_time,   \* list of relative sample times
    sample_counter,     \* number of the next sample
    current_ble_hr,     \* latest heart rate, or None
    hr_log,             \* list of <<timestamp, heart rate>>
    data_lock,          \* owner of threading.Lock: "free", "ble", "plot", "export"
    session_start_time, \* datetime.now() at import
    \* ---- wall clock read by datetime.now()
    now,
    \* ---- BLE thread: the handler call in progress
    ble_pc,             \* position of the BLE thread
    handler,            \* callback being run: "none", "pmd", "hr"
    data,               \* the call's payload argument
    samples,            \* pmd_data_handler: data[10:]
    offset,             \* pmd_data_handler: loop offset
    hr,                 \* heart_rate_notification_handler: parsed value
    ble_exc,            \* exception the call raised: "none", "IndexError"
    \* ---- display reader: locals of update_plot / update_graph
    plot_pc, plot_data, plot_times, plot_ble_hr,
    \* ---- export reader: locals of export_csv / generate_combined_csv
    exp_pc, ecg_times, ecg_values, hr_data_local,
    rows,               \* the list of row dicts export builds and sorts
    \* ---- ble_main: the coroutine the BLE thread's event loop runs
    main_pc,            \* position of ble_main
    ble_connected,      \* the module-level flag of app.py
    subscribed,         \* characteristics the transport notifies: "pmd", "hr"
    \* ---- history: the calls the BLE thread has completed, in arrival order,
    \*      each with the store it left behind (entry 1 is the empty store)
    committed,
    \* ---- history: the wall-clock time at which each entry of hr_log was
    \*      appended, in the order of hr_log
    observed

store_vars  == <<ecg_session_data, ecg_session_time, sample_counter,
                 current_ble_hr, hr_log>>
ble_vars    == <<ble_pc, handler, data, samples, offset, hr, ble_exc>>
plot_vars   == <<plot_pc, plot_data, plot_times, plot_ble_hr>>
export_vars == <<exp_pc, ecg_times, ecg_values, hr_data_local, rows>>
main_vars   == <<main_pc, ble_connected, subscribed>>
vars == <<store_vars, data_lock, session_start_time, now, ble_vars,
          plot_vars, export_vars, main_vars, committed, observed>>

-----------------------------------------------------------------------------
(* Program constants *)

SAMPLING_RATE == 100

\* ECG sample width in bytes (step = 3)
step == 3

\* offset of the sample bytes in a PMD payload (data[10:])
SAMPLE_OFFSET == 10

\* current_ble_hr = None
None == -1

\* resolution of datetime / timedelta
MicrosPerSecond == 1000000

\* the display window in seconds (window_size = SAMPLING_RATE * 10)
WINDOW_SECONDS == 10

window_size == SAMPLING_RATE * WINDOW_SECONDS

-----------------------------------------------------------------------------
(* Bounds of the model *)

\* waveform notifications delivered in one behaviour
MaxPmd == 2

\* heart-rate notifications delivered in one behaviour
MaxHr == 1

\* complete 3-byte groups in one waveform payload
MaxGroups == 3

\* clock ticks in one behaviour
MaxTicks == 1

\* sessions that have already received this many samples: none, and about
\* one display window's worth
PreloadSizes == {0, window_size - 1, window_size, window_size + 1}

\* the value of the i-th sample received before the behaviour starts
PreloadValue(i) == ((i * 37) % 201) - 100

\* the wall clock at import, and how far one tick moves it (microseconds)
StartTimes == {990000}
ClockSteps == {700000}

-----------------------------------------------------------------------------
(* Python helpers *)

Min(a, b) == IF a <= b THEN a ELSE b

\* s[a:b] for 0 <= a, 0 <= b: the slice is clamped to the sequence
Slice(s, a, b) ==
    IF a >= Min(b, Len(s)) THEN <<>> ELSE SubSeq(s, a + 1, Min(b, Len(s)))

RECURSIVE FromBytesLE(_)
\* int.from_bytes(bs, byteorder="little"), unsigned
FromBytesLE(bs) ==
    IF bs = <<>> THEN 0 ELSE Head(bs) + 256 * FromBytesLE(Tail(bs))

RECURSIVE FromBytesBE(_)
\* the bytes read most significant first
FromBytesBE(bs) ==
    IF bs = <<>> THEN 0
    ELSE Head(bs) * (2 ^ (8 * (Len(bs) - 1))) + FromBytesBE(Tail(bs))

\* the bytes read without a sign
FromBytesUnsigned(bs) == FromBytesLE(bs)

\* int.from_bytes(bs, byteorder="little", signed=True): two's complement
FromBytesSigned(bs) ==
    LET u == FromBytesLE(bs)
        n == Len(bs)
    IN  IF n > 0 /\ u >= 2 ^ (8 * n - 1) THEN u - 2 ^ (8 * n) ELSE u

\* sample_counter / SAMPLING_RATE, in microseconds
RelTimeFromOne(n) == ((n + 1) * MicrosPerSecond) \div SAMPLING_RATE

RelTime(n) == (n * MicrosPerSecond) \div SAMPLING_RATE

\* datetime.now().strftime("%Y-%m-%d %H:%M:%S"): the fraction is dropped
Strftime(t) == t \div MicrosPerSecond

IsPrefix(a, b) == Len(a) <= Len(b) /\ SubSeq(b, 1, Len(a)) = a

Last(s) == s[Len(s)]

\* the module-level store as one value
Store ==
    [data    |-> ecg_session_data,
     time    |-> ecg_session_time,
     counter |-> sample_counter,
     hr      |-> current_ble_hr,
     log     |-> hr_log]

\* calls of callback h completed so far
NumCalls(h) == Cardinality({i \in DOMAIN committed : committed[i].handler = h})

-----------------------------------------------------------------------------
(* Inputs: the payloads the transport delivers *)

\* 3-byte little-endian groups: 100, -50, 200, -2^23, 2^23 - 1, -1
SampleGroups ==
    << <<100, 0, 0>>, <<206, 255, 255>>, <<200, 0, 0>>,
       <<0, 0, 128>>, <<255, 255, 127>>, <<255, 255, 255>> >>

\* a 10-byte PMD header with type tag `tag`; bytes 1..9 are not read by app.py
Header(tag) == <<tag, 1, 2, 3, 4, 5, 6, 7, 8, 9>>

RECURSIVE Groups(_, _)
\* g consecutive groups starting at group s (cyclically)
Groups(s, g) ==
    IF g = 0 THEN <<>>
    ELSE SampleGroups[(s % Len(SampleGroups)) + 1] \o Groups(s + 1, g - 1)

\* t trailing bytes of an incomplete group
Trailing(t) == SubSeq(<<77, 255>>, 1, t)

Packet(tag, s, g, t) == Header(tag) \o Groups(s, g) \o Trailing(t)

\* waveform payloads: empty, truncated headers, other tags, and tag 0x00 with
\* 0..MaxGroups groups and 0..2 trailing bytes
PmdPayloads ==
    {<<>>, <<0>>, SubSeq(Header(0), 1, 5), Packet(1, 0, 2, 0), Packet(255, 3, 1, 1)}
    \cup {Packet(0, 0, g, t) : g \in 0..MaxGroups, t \in 0..2}
    \cup {Packet(0, 3, g, 0) : g \in 1..MaxGroups}

\* the payloads of the interleaving specification
PmdPayloadsSmall == {Packet(1, 0, 1, 0), Packet(0, 1, 2, 1)}

\* heart-rate payloads: flags byte, value byte(s), optional further fields
HrPayloads ==
    {<<>>, <<0>>, <<1>>, <<16>>, <<0, 72>>, <<1, 72>>, <<6, 72>>, <<17, 200>>,
     <<1, 72, 0>>, <<1, 72, 1>>, <<0, 72, 1>>, <<16, 60, 255, 3>>,
     <<17, 44, 1, 0, 4>>, <<7, 255, 255>>}

HrPayloadsSmall == {<<0>>, <<0, 72>>, <<1, 44, 1>>}

-----------------------------------------------------------------------------
(* Initial states *)

\* the module has been imported: lock free, clock read, no call in progress
InitLocals ==
    /\ data_lock = "free"
    /\ now \in StartTimes
    /\ session_start_time = now
    /\ ble_pc = "idle" /\ handler = "none" /\ data = <<>> /\ samples = <<>>
    /\ offset = 0 /\ hr = None /\ ble_exc = "none"
    /\ plot_pc = "idle" /\ plot_data = <<>> /\ plot_times = <<>>
    /\ plot_ble_hr = None
    /\ exp_pc = "idle" /\ ecg_times = <<>> /\ ecg_values = <<>>
    /\ hr_data_local = <<>>
    /\ rows = <<>>
    /\ observed = <<>>

\* the store holds n samples and no heart rate
StoreIs(n) ==
    /\ ecg_session_data = [i \in 1..n |-> PreloadValue(i)]
    /\ ecg_session_time = [i \in 1..n |-> RelTime(i - 1)]
    /\ sample_counter = n
    /\ current_ble_hr = None
    /\ hr_log = <<>>
    /\ committed = << [handler |-> "none", data |-> <<>>, raised |-> "none",
                       store |-> Store] >>

\* the module has been imported: empty store
InitModule ==
    /\ InitLocals
    /\ StoreIs(0)

\* run_ble has not started ble_main yet
InitSession ==
    /\ InitModule
    /\ main_pc = "connect"
    /\ ble_connected = FALSE
    /\ subscribed = {}

\* ble_main has connected and subscribed to both characteristics
Receiving ==
    /\ main_pc = "loop"
    /\ ble_connected = TRUE
    /\ subscribed = {"pmd", "hr"}

\* ble_main sleeps in its loop; no notification has arrived yet
Init ==
    /\ InitModule
    /\ Receiving

\* ble_main sleeps in its loop; the session has run for a while
InitWindow ==
    /\ InitLocals
    /\ Receiving
    /\ \E n \in PreloadSizes : StoreIs(n)

-----------------------------------------------------------------------------
(* The wall clock *)

Tick ==
    /\ \E dt \in ClockSteps :
          /\ now + dt <= session_start_time + MaxTicks * dt
          /\ now' = now + dt
    /\ UNCHANGED <<store_vars, data_lock, session_start_time, ble_vars,
                   plot_vars, export_vars, committed, observed,
                   main_vars>>

-----------------------------------------------------------------------------
(* threading.Lock *)

LockAlwaysAvailable == TRUE

\* `with data_lock:` blocks until the lock is free
LockAvailable == data_lock = "free"

-----------------------------------------------------------------------------
(* pmd_data_handler *)

\* the transport calls pmd_data_handler(sender, d)
DeliverPmd(P) ==
    /\ ble_pc = "idle"
    /\ "pmd" \in subscribed
    /\ NumCalls("pmd") < MaxPmd
    /\ \E d \in P : data' = d
    /\ ble_pc' = "pmd_entry"
    /\ handler' = "pmd"
    /\ ble_exc' = "none"
    /\ UNCHANGED <<store_vars, data_lock, session_start_time, now, samples,
                   offset, hr, plot_vars, export_vars, committed, observed,
                   main_vars>>

AnyTag(d) == TRUE

\* data[0] == 0x00
IsEcgTag(d) == d[1] = 0

\* if not data: return; a payload whose data[0] != 0x00 falls off the end of
\* the handler
PmdSkip ==
    /\ ble_pc = "pmd_entry"
    /\ IF data = <<>> THEN TRUE ELSE ~IsEcgTag(data)
    /\ ble_pc' = "returned"
    /\ UNCHANGED <<store_vars, data_lock, session_start_time, now, handler,
                   data, samples, offset, hr, ble_exc, plot_vars, export_vars,
                   committed, observed,
                   main_vars>>

SampleBytesFromNine(d) == Slice(d, SAMPLE_OFFSET - 1, Len(d))

\* samples = data[10:]
SampleBytes(d) == Slice(d, SAMPLE_OFFSET, Len(d))

PmdSlice ==
    /\ ble_pc = "pmd_entry"
    /\ data # <<>>
    /\ IsEcgTag(data)
    /\ samples' = SampleBytes(data)
    /\ ble_pc' = "pmd_lock"
    /\ UNCHANGED <<store_vars, data_lock, session_start_time, now, handler,
                   data, offset, hr, ble_exc, plot_vars, export_vars, committed, observed,
                   main_vars>>

\* with data_lock: offset = 0
PmdAcquire ==
    /\ ble_pc = "pmd_lock"
    /\ LockAvailable
    /\ data_lock' = "ble"
    /\ offset' = 0
    /\ ble_pc' = "pmd_loop"
    /\ UNCHANGED <<store_vars, session_start_time, now, handler, data, samples,
                   hr, ble_exc, plot_vars, export_vars, committed, observed,
                   main_vars>>

MoreSamplesStrict(off, smp) == off + step < Len(smp)

\* while offset + step <= len(samples)
MoreSamples(off, smp) == off + step <= Len(smp)

DecodeUnsigned(smp, off) == FromBytesUnsigned(Slice(smp, off, off + step))

\* int.from_bytes(samples[offset:offset + step], byteorder="little", signed=True)
DecodeSample(smp, off) == FromBytesSigned(Slice(smp, off, off + step))

SampleKeepLatest(list, v) == <<v>>

\* list.append(v)
SampleAppend(list, v) == Append(list, v)

\* a plain assignment binds the reader's name to the store's own list
PlainAssignment == FALSE

\* list.copy() and list(x) return a new list object, which a later append to
\* the store's list does not reach
CopyIsNewList == TRUE

\* what a reader's list reads as once the store's list has become newList;
\* `bound` says the reader's name has been assigned and not yet rebound
ReaderList(local, bound, newList) ==
    IF bound /\ ~CopyIsNewList THEN newList ELSE local

\* the positions of update_plot at which data, times name their copies
PlotDataBound == plot_pc \in {"copy_times", "copy_hr", "release", "window"}
PlotTimesBound == plot_pc \in {"copy_hr", "release", "window"}

\* the positions of export_csv at which its three locals name their copies
ExportTimesBound ==
    exp_pc \in {"copy_values", "copy_hr", "release", "rows", "dialog", "to_csv"}
ExportValuesBound == exp_pc \in {"copy_hr", "release", "rows", "dialog", "to_csv"}
ExportHrBound == exp_pc \in {"release", "rows", "dialog", "to_csv"}

\* ecg_value = int.from_bytes(...); ecg_session_data.append(ecg_value)
PmdAppendValue ==
    /\ ble_pc = "pmd_loop"
    /\ MoreSamples(offset, samples)
    /\ ecg_session_data' = SampleAppend(ecg_session_data, DecodeSample(samples, offset))
    /\ ble_pc' = "pmd_time"
    /\ plot_data' = ReaderList(plot_data, PlotDataBound, ecg_session_data')
    /\ ecg_values' = ReaderList(ecg_values, ExportValuesBound, ecg_session_data')
    /\ UNCHANGED <<ecg_session_time, sample_counter, current_ble_hr, hr_log,
                   data_lock, session_start_time, now, handler, data, samples,
                   offset, hr, ble_exc, plot_pc, plot_times, plot_ble_hr,
                   exp_pc, ecg_times, hr_data_local, rows, committed, observed,
                   main_vars>>

\* ecg_session_time.append(sample_counter / SAMPLING_RATE)
PmdAppendTime ==
    /\ ble_pc = "pmd_time"
    /\ ecg_session_time' = Append(ecg_session_time, RelTime(sample_counter))
    /\ ble_pc' = "pmd_count"
    /\ plot_times' = ReaderList(plot_times, PlotTimesBound, ecg_session_time')
    /\ ecg_times' = ReaderList(ecg_times, ExportTimesBound, ecg_session_time')
    /\ UNCHANGED <<ecg_session_data, sample_counter, current_ble_hr, hr_log,
                   data_lock, session_start_time, now, handler, data, samples,
                   offset, hr, ble_exc, plot_pc, plot_data, plot_ble_hr,
                   exp_pc, ecg_values, hr_data_local, rows, committed, observed,
                   main_vars>>

CounterPlusStep(c) == c + step

\* sample_counter += 1
NextCounter(c) == c + 1

\* sample_counter += 1; offset += step
PmdCount ==
    /\ ble_pc = "pmd_count"
    /\ sample_counter' = NextCounter(sample_counter)
    /\ offset' = offset + step
    /\ ble_pc' = "pmd_loop"
    /\ UNCHANGED <<ecg_session_data, ecg_session_time, current_ble_hr, hr_log,
                   data_lock, session_start_time, now, handler, data, samples,
                   hr, ble_exc, plot_vars, export_vars, committed, observed,
                   main_vars>>

\* the loop ends; leaving the with block releases the lock
PmdRelease ==
    /\ ble_pc = "pmd_loop"
    /\ ~MoreSamples(offset, samples)
    /\ data_lock' = "free"
    /\ ble_pc' = "returned"
    /\ UNCHANGED <<store_vars, session_start_time, now, handler, data, samples,
                   offset, hr, ble_exc, plot_vars, export_vars, committed, observed,
                   main_vars>>

-----------------------------------------------------------------------------
(* parse_heart_rate_measurement and heart_rate_notification_handler *)

ParseBigEndian(d) ==
    IF d = <<>> THEN [raised |-> "IndexError", value |-> None]
    ELSE IF d[1] % 2 = 0
         THEN IF Len(d) < 2 THEN [raised |-> "IndexError", value |-> None]
              ELSE [raised |-> "none", value |-> d[2]]
         ELSE [raised |-> "none", value |-> FromBytesBE(Slice(d, 1, 3))]

\* data[0] and data[1] raise IndexError past the end of the payload; the
\* slice data[1:3] never raises, and int.from_bytes of an empty slice is 0
parse_heart_rate_measurement(d) ==
    IF d = <<>> THEN [raised |-> "IndexError", value |-> None]
    ELSE IF d[1] % 2 = 0
         THEN IF Len(d) < 2 THEN [raised |-> "IndexError", value |-> None]
              ELSE [raised |-> "none", value |-> d[2]]
         ELSE [raised |-> "none", value |-> FromBytesLE(Slice(d, 1, 3))]

\* the transport calls heart_rate_notification_handler(sender, d)
DeliverHr(P) ==
    /\ ble_pc = "idle"
    /\ "hr" \in subscribed
    /\ NumCalls("hr") < MaxHr
    /\ \E d \in P : data' = d
    /\ ble_pc' = "hr_parse"
    /\ handler' = "hr"
    /\ ble_exc' = "none"
    /\ UNCHANGED <<store_vars, data_lock, session_start_time, now, samples,
                   offset, hr, plot_vars, export_vars, committed, observed,
                   main_vars>>

\* hr = parse_heart_rate_measurement(data) raises: the call ends before the lock
HrParseRaise ==
    /\ ble_pc = "hr_parse"
    /\ parse_heart_rate_measurement(data).raised # "none"
    /\ ble_exc' = parse_heart_rate_measurement(data).raised
    /\ ble_pc' = "returned"
    /\ UNCHANGED <<store_vars, data_lock, session_start_time, now, handler,
                   data, samples, offset, hr, plot_vars, export_vars, committed, observed,
                   main_vars>>

\* hr = parse_heart_rate_measurement(data)
HrParse ==
    /\ ble_pc = "hr_parse"
    /\ parse_heart_rate_measurement(data).raised = "none"
    /\ hr' = parse_heart_rate_measurement(data).value
    /\ ble_pc' = "hr_lock"
    /\ UNCHANGED <<store_vars, data_lock, session_start_time, now, handler,
                   data, samples, offset, ble_exc, plot_vars, export_vars,
                   committed, observed,
                   main_vars>>

\* with data_lock:
HrAcquire ==
    /\ ble_pc = "hr_lock"
    /\ LockAvailable
    /\ data_lock' = "ble"
    /\ ble_pc' = "hr_set"
    /\ UNCHANGED <<store_vars, session_start_time, now, handler, data, samples,
                   offset, hr, ble_exc, plot_vars, export_vars, committed, observed,
                   main_vars>>

\* current_ble_hr = hr
HrSet ==
    /\ ble_pc = "hr_set"
    /\ current_ble_hr' = hr
    /\ ble_pc' = "hr_append"
    /\ UNCHANGED <<ecg_session_data, ecg_session_time, sample_counter, hr_log,
                   data_lock, session_start_time, now, handler, data, samples,
                   offset, hr, ble_exc, plot_vars, export_vars, committed, observed,
                   main_vars>>

\* the value is stored without being logged
LogDrop(log, entry) == log

\* hr_log.append(entry)
LogAppend(log, entry) == Append(log, entry)

\* hr_log.append((datetime.now().strftime("%Y-%m-%d %H:%M:%S"), hr))
HrAppend ==
    /\ ble_pc = "hr_append"
    /\ hr_log' = LogAppend(hr_log, <<Strftime(now), hr>>)
    /\ observed' = Append(observed, now)
    /\ ble_pc' = "hr_release"
    /\ hr_data_local' = ReaderList(hr_data_local, ExportHrBound, hr_log')
    /\ UNCHANGED <<ecg_session_data, ecg_session_time, sample_counter,
                   current_ble_hr, data_lock, session_start_time, now, handler,
                   data, samples, offset, hr, ble_exc, plot_vars, exp_pc,
                   ecg_times, ecg_values, rows, committed, main_vars>>

\* leaving the with block releases the lock
HrRelease ==
    /\ ble_pc = "hr_release"
    /\ data_lock' = "free"
    /\ ble_pc' = "returned"
    /\ UNCHANGED <<store_vars, session_start_time, now, handler, data, samples,
                   offset, hr, ble_exc, plot_vars, export_vars, committed, observed,
                   main_vars>>

-----------------------------------------------------------------------------
(* The callback returns (or raises) into the transport's dispatch *)

BleReturn ==
    /\ ble_pc = "returned"
    /\ committed' = Append(committed, [handler |-> handler, data |-> data,
                                       raised |-> ble_exc, store |-> Store])
    /\ ble_pc' = "idle"
    /\ handler' = "none"
    /\ data' = <<>>
    /\ samples' = <<>>
    /\ offset' = 0
    /\ hr' = None
    /\ ble_exc' = "none"
    /\ UNCHANGED <<store_vars, data_lock, session_start_time, now, plot_vars,
                   export_vars, observed, main_vars>>

-----------------------------------------------------------------------------
(* update_plot (app.py) / update_graph (main.py) *)

\* with data_lock:
PlotAcquire ==
    /\ plot_pc = "idle"
    /\ LockAvailable
    /\ data_lock' = "plot"
    /\ plot_pc' = "copy_data"
    /\ UNCHANGED <<store_vars, session_start_time, now, ble_vars, plot_data,
                   plot_times, plot_ble_hr, export_vars, committed, observed,
                   main_vars>>

\* data = ecg_session_data.copy()
PlotCopyData ==
    /\ plot_pc = "copy_data"
    /\ plot_data' = ecg_session_data
    /\ plot_pc' = "copy_times"
    /\ UNCHANGED <<store_vars, data_lock, session_start_time, now, ble_vars,
                   plot_times, plot_ble_hr, export_vars, committed, observed,
                   main_vars>>

\* times = ecg_session_time.copy()
PlotCopyTimes ==
    /\ plot_pc = "copy_times"
    /\ plot_times' = ecg_session_time
    /\ plot_pc' = "copy_hr"
    /\ UNCHANGED <<store_vars, data_lock, session_start_time, now, ble_vars,
                   plot_data, plot_ble_hr, export_vars, committed, observed,
                   main_vars>>

\* ble_hr = current_ble_hr
PlotCopyHr ==
    /\ plot_pc = "copy_hr"
    /\ plot_ble_hr' = current_ble_hr
    /\ plot_pc' = "release"
    /\ UNCHANGED <<store_vars, data_lock, session_start_time, now, ble_vars,
                   plot_data, plot_times, export_vars, committed, observed,
                   main_vars>>

\* the with block is left without releasing the lock
PlotKeepsLock ==
    /\ plot_pc = "release"
    /\ plot_pc' = "window"
    /\ UNCHANGED <<store_vars, data_lock, session_start_time, now, ble_vars,
                   plot_data, plot_times, plot_ble_hr, export_vars, committed,
                   observed, main_vars>>

\* leaving the with block releases the lock
PlotRelease ==
    /\ plot_pc = "release"
    /\ data_lock' = "free"
    /\ plot_pc' = "window"
    /\ UNCHANGED <<store_vars, session_start_time, now, ble_vars, plot_data,
                   plot_times, plot_ble_hr, export_vars, committed, observed,
                   main_vars>>

\* s[:n]: the first n elements
FirstN(s, n) == SubSeq(s, 1, Min(n, Len(s)))

\* s[-n:] for n > 0: the last n elements, or all of s when it is shorter
LastN(s, n) == IF Len(s) > n THEN SubSeq(s, Len(s) - n + 1, Len(s)) ELSE s

\* if len(data) > window_size: data = data[-window_size:]; times = times[-window_size:]
PlotWindow ==
    /\ plot_pc = "window"
    /\ IF Len(plot_data) > window_size
       THEN /\ plot_data' = LastN(plot_data, window_size)
            /\ plot_times' = LastN(plot_times, window_size)
       ELSE UNCHANGED <<plot_data, plot_times>>
    /\ plot_pc' = "render"
    /\ UNCHANGED <<store_vars, data_lock, session_start_time, now, ble_vars,
                   plot_ble_hr, export_vars, committed, observed,
                   main_vars>>

\* if not ble_connected: setText("未接続") else: setText("測定 Heart Rate: ...")
\* the label update_plot is about to set reads the flag as it is now
LabelShowsMeasured == ble_connected

\* plotting, peak marking and the label text read the copies only; the call
\* returns and its locals go out of scope
PlotRender ==
    /\ plot_pc = "render"
    /\ plot_pc' = "idle"
    /\ plot_data' = <<>>
    /\ plot_times' = <<>>
    /\ plot_ble_hr' = None
    /\ UNCHANGED <<store_vars, data_lock, session_start_time, now, ble_vars,
                   export_vars, committed, observed,
                   main_vars>>

-----------------------------------------------------------------------------
(* export_csv (app.py) / generate_combined_csv (main.py) *)

\* with data_lock:
ExportAcquire ==
    /\ exp_pc = "idle"
    /\ LockAvailable
    /\ data_lock' = "export"
    /\ exp_pc' = "copy_times"
    /\ UNCHANGED <<store_vars, session_start_time, now, ble_vars, plot_vars,
                   ecg_times, ecg_values, hr_data_local, rows, committed,
                   observed, main_vars>>

\* ecg_times = ecg_session_time.copy()
ExportCopyTimes ==
    /\ exp_pc = "copy_times"
    /\ ecg_times' = ecg_session_time
    /\ exp_pc' = "copy_values"
    /\ UNCHANGED <<store_vars, data_lock, session_start_time, now, ble_vars,
                   plot_vars, ecg_values, hr_data_local, rows, committed,
                   observed, main_vars>>

\* ecg_values = ecg_session_data.copy()
ExportCopyValues ==
    /\ exp_pc = "copy_values"
    /\ ecg_values' = ecg_session_data
    /\ exp_pc' = "copy_hr"
    /\ UNCHANGED <<store_vars, data_lock, session_start_time, now, ble_vars,
                   plot_vars, ecg_times, hr_data_local, rows, committed,
                   observed, main_vars>>

\* hr_data_local = list(hr_log)
ExportCopyHr ==
    /\ exp_pc = "copy_hr"
    /\ hr_data_local' = hr_log
    /\ exp_pc' = "release"
    /\ UNCHANGED <<store_vars, data_lock, session_start_time, now, ble_vars,
                   plot_vars, ecg_times, ecg_values, rows, committed,
                   observed, main_vars>>

\* the with block is left without releasing the lock
ExportKeepsLock ==
    /\ exp_pc = "release"
    /\ exp_pc' = "rows"
    /\ UNCHANGED <<store_vars, data_lock, session_start_time, now, ble_vars,
                   plot_vars, ecg_times, ecg_values, hr_data_local, rows,
                   committed, observed, main_vars>>

\* leaving the with block releases the lock
ExportRelease ==
    /\ exp_pc = "release"
    /\ data_lock' = "free"
    /\ exp_pc' = "rows"
    /\ UNCHANGED <<store_vars, session_start_time, now, ble_vars, plot_vars,
                   ecg_times, ecg_values, hr_data_local, rows, committed,
                   observed, main_vars>>

\* The text strftime("%Y-%m-%d %H:%M:%S.%f") yields for the instant t: whole
\* seconds and the six-digit fraction
StrftimeMicros(t) ==
    [sec |-> t \div MicrosPerSecond, us |-> t % MicrosPerSecond]

\* the text of an hr_log timestamp ("%Y-%m-%d %H:%M:%S"): no fraction
SecondsText(ts) == [sec |-> ts, us |-> None]

\* pd.to_datetime(text): the instant the text denotes; a text without a
\* fraction denotes the start of its second
to_datetime(text) ==
    text.sec * MicrosPerSecond + (IF text.us = None THEN 0 ELSE text.us)

\* for rel_time, value in zip(ecg_times, ecg_values): rows.append({...}),
\* timestamp = session_start_time + timedelta(seconds=rel_time)
EcgRows(times, values) ==
    [i \in 1..Min(Len(times), Len(values)) |->
        [timestamp |-> StrftimeMicros(session_start_time + times[i]),
         value |-> values[i],
         source |-> "ECG"]]

\* for ts, hr in hr_data_local: rows.append({"timestamp": ts, ...})
HrRows(log) ==
    [i \in 1..Len(log) |->
        [timestamp |-> SecondsText(log[i][1]),
         value |-> log[i][2],
         source |-> "Heart Rate"]]

\* the heart-rate rows are appended first
RowsHrFirst(times, values, log) == HrRows(log) \o EcgRows(times, values)

\* rows as the two loops leave it: the ECG rows, then the heart-rate rows
BuildRows(times, values, log) == EcgRows(times, values) \o HrRows(log)

RECURSIVE InsertRow(_, _)
\* `sorted` with `row` placed behind every element whose key is not greater
InsertRow(sorted, row) ==
    IF sorted = <<>> THEN <<row>>
    ELSE IF to_datetime(Last(sorted).timestamp) <= to_datetime(row.timestamp)
         THEN Append(sorted, row)
         ELSE Append(InsertRow(SubSeq(sorted, 1, Len(sorted) - 1), row),
                     Last(sorted))

RECURSIVE SortRows(_)
\* rows.sort(key=lambda row: pd.to_datetime(row["timestamp"])): list.sort is
\* stable, so the result is the one order-preserving arrangement by key
SortRows(rs) ==
    IF rs = <<>> THEN <<>>
    ELSE InsertRow(SortRows(SubSeq(rs, 1, Len(rs) - 1)), Last(rs))

\* rows = []; the two loops; rows.sort(...); df = pd.DataFrame(rows)
ExportRows ==
    /\ exp_pc = "rows"
    /\ rows' = SortRows(BuildRows(ecg_times, ecg_values, hr_data_local))
    /\ exp_pc' = "dialog"
    /\ UNCHANGED <<store_vars, data_lock, session_start_time, now, ble_vars,
                   plot_vars, ecg_times, ecg_values, hr_data_local, committed,
                   observed, main_vars>>

\* file_path, _ = QFileDialog.getSaveFileName(...); if file_path: the user
\* names a file, or cancels and the call returns (main.py has no dialog and
\* always goes on to dcc.send_data_frame)
ExportDialog ==
    /\ exp_pc = "dialog"
    /\ \E chosen \in BOOLEAN :
          IF chosen
          THEN /\ exp_pc' = "to_csv"
               /\ UNCHANGED <<ecg_times, ecg_values, hr_data_local, rows>>
          ELSE /\ exp_pc' = "idle"
               /\ ecg_times' = <<>>
               /\ ecg_values' = <<>>
               /\ hr_data_local' = <<>>
               /\ rows' = <<>>
    /\ UNCHANGED <<store_vars, data_lock, session_start_time, now, ble_vars,
                   plot_vars, committed, observed, main_vars>>

\* df.to_csv(file_path, index=False) (dcc.send_data_frame in main.py): the
\* rows are handed to the file; the call returns and its locals go out of
\* scope
ExportWrite ==
    /\ exp_pc = "to_csv"
    /\ exp_pc' = "idle"
    /\ ecg_times' = <<>>
    /\ ecg_values' = <<>>
    /\ hr_data_local' = <<>>
    /\ rows' = <<>>
    /\ UNCHANGED <<store_vars, data_lock, session_start_time, now, ble_vars,
                   plot_vars, committed, observed, main_vars>>

-----------------------------------------------------------------------------
(* ble_main: the coroutine asyncio.run drives on the BLE thread *)

\* callbacks dispatched on another thread would let ble_main go on meanwhile
HandlersOnOtherThread == TRUE

\* the event loop runs one thing at a time: ble_main resumes from an await
\* only while no handler call is in progress
LoopFree == ble_pc = "idle"

\* an exception leaves ble_main through the end of the `async with` block:
\* the client disconnects, ble_connected keeps its value, run_ble ends
MainRaise ==
    /\ main_pc' = "failed"
    /\ subscribed' = {}
    /\ UNCHANGED ble_connected

\* async with BleakClient(...) as client: ble_connected = True
MainConnect ==
    /\ main_pc = "connect"
    /\ LoopFree
    /\ \E ok \in BOOLEAN :
          IF ok
          THEN /\ main_pc' = "write_ecg"
               /\ ble_connected' = TRUE
               /\ UNCHANGED subscribed
          ELSE MainRaise
    /\ UNCHANGED <<store_vars, data_lock, session_start_time, now, ble_vars,
                   plot_vars, export_vars, committed, observed>>

\* await client.write_gatt_char(PMD_CONTROL_UUID, ECG_WRITE)
MainWriteEcg ==
    /\ main_pc = "write_ecg"
    /\ LoopFree
    /\ \E ok \in BOOLEAN :
          IF ok
          THEN /\ main_pc' = "start_pmd"
               /\ UNCHANGED <<ble_connected, subscribed>>
          ELSE MainRaise
    /\ UNCHANGED <<store_vars, data_lock, session_start_time, now, ble_vars,
                   plot_vars, export_vars, committed, observed>>

\* await client.start_notify(PMD_DATA_UUID, pmd_data_handler)
MainStartPmd ==
    /\ main_pc = "start_pmd"
    /\ LoopFree
    /\ \E ok \in BOOLEAN :
          IF ok
          THEN /\ main_pc' = "start_hr"
               /\ subscribed' = subscribed \cup {"pmd"}
               /\ UNCHANGED ble_connected
          ELSE MainRaise
    /\ UNCHANGED <<store_vars, data_lock, session_start_time, now, ble_vars,
                   plot_vars, export_vars, committed, observed>>

\* await client.start_notify(HEART_RATE_MEASUREMENT_CHAR_UUID,
\*                           heart_rate_notification_handler)
MainStartHr ==
    /\ main_pc = "start_hr"
    /\ LoopFree
    /\ \E ok \in BOOLEAN :
          IF ok
          THEN /\ main_pc' = "loop"
               /\ subscribed' = subscribed \cup {"hr"}
               /\ UNCHANGED ble_connected
          ELSE MainRaise
    /\ UNCHANGED <<store_vars, data_lock, session_start_time, now, ble_vars,
                   plot_vars, export_vars, committed, observed>>

\* while True: await asyncio.sleep(1) is cancelled; except
\* asyncio.CancelledError: pass; the finally block starts
MainCancel ==
    /\ main_pc = "loop"
    /\ LoopFree
    /\ main_pc' = "stop_pmd"
    /\ UNCHANGED <<store_vars, data_lock, session_start_time, now, ble_vars,
                   plot_vars, export_vars, ble_connected, subscribed,
                   committed, observed>>

\* finally: await client.stop_notify(PMD_DATA_UUID)
MainStopPmd ==
    /\ main_pc = "stop_pmd"
    /\ LoopFree
    /\ \E ok \in BOOLEAN :
          IF ok
          THEN /\ main_pc' = "stop_hr"
               /\ subscribed' = subscribed \ {"pmd"}
               /\ UNCHANGED ble_connected
          ELSE MainRaise
    /\ UNCHANGED <<store_vars, data_lock, session_start_time, now, ble_vars,
                   plot_vars, export_vars, committed, observed>>

\* finally: await client.stop_notify(HEART_RATE_MEASUREMENT_CHAR_UUID)
MainStopHr ==
    /\ main_pc = "stop_hr"
    /\ LoopFree
    /\ \E ok \in BOOLEAN :
          IF ok
          THEN /\ main_pc' = "exit"
               /\ subscribed' = subscribed \ {"hr"}
               /\ UNCHANGED ble_connected
          ELSE MainRaise
    /\ UNCHANGED <<store_vars, data_lock, session_start_time, now, ble_vars,
                   plot_vars, export_vars, committed, observed>>

\* the end of the `async with` block: the client disconnects
MainExit ==
    /\ main_pc = "exit"
    /\ LoopFree
    /\ main_pc' = "clear_flag"
    /\ subscribed' = {}
    /\ UNCHANGED <<store_vars, data_lock, session_start_time, now, ble_vars,
                   plot_vars, export_vars, ble_connected, committed, observed>>

\* ble_connected = False
MainClearFlag ==
    /\ main_pc = "clear_flag"
    /\ LoopFree
    /\ ble_connected' = FALSE
    /\ main_pc' = "done"
    /\ UNCHANGED <<store_vars, data_lock, session_start_time, now, ble_vars,
                   plot_vars, export_vars, subscribed, committed, observed>>

MainSteps ==
    \/ MainConnect
    \/ MainWriteEcg
    \/ MainStartPmd
    \/ MainStartHr
    \/ MainCancel
    \/ MainStopPmd
    \/ MainStopHr
    \/ MainExit
    \/ MainClearFlag

-----------------------------------------------------------------------------
(* Specifications *)

PmdSteps ==
    \/ PmdSkip
    \/ PmdSlice
    \/ PmdAcquire
    \/ PmdAppendValue
    \/ PmdAppendTime
    \/ PmdCount
    \/ PmdRelease

HrSteps ==
    \/ HrParseRaise
    \/ HrParse
    \/ HrAcquire
    \/ HrSet
    \/ HrAppend
    \/ HrRelease

PlotSteps ==
    \/ PlotAcquire
    \/ PlotCopyData
    \/ PlotCopyTimes
    \/ PlotCopyHr
    \/ PlotRelease
    \/ PlotWindow
    \/ PlotRender

ExportSteps ==
    \/ ExportAcquire
    \/ ExportCopyTimes
    \/ ExportCopyValues
    \/ ExportCopyHr
    \/ ExportRelease
    \/ ExportRows
    \/ ExportDialog
    \/ ExportWrite

\* The BLE thread and both readers, interleaved, within one tick of the clock
Next ==
    \/ DeliverPmd(PmdPayloadsSmall)
    \/ DeliverHr(HrPayloadsSmall)
    \/ PmdSteps
    \/ HrSteps
    \/ BleReturn
    \/ PlotSteps
    \/ ExportSteps

Spec == Init /\ [][Next]_vars

\* what a handler call on a well-formed payload does once it is in progress,
\* the wait for the lock apart
HandlerRuns ==
    \/ PmdSlice
    \/ PmdAppendValue
    \/ PmdAppendTime
    \/ PmdCount
    \/ PmdRelease
    \/ HrParse
    \/ HrSet
    \/ HrAppend
    \/ HrRelease
    \/ BleReturn

\* what a reader does inside its `with data_lock` block
PlotLocked == PlotCopyData \/ PlotCopyTimes \/ PlotCopyHr \/ PlotRelease
ExportLocked ==
    ExportCopyTimes \/ ExportCopyValues \/ ExportCopyHr \/ ExportRelease

\* Scheduling: a thread that can run its next statement eventually runs it
\* (the handlers, and a reader up to the end of its locked block); the lock
\* is fair, so a handler that finds it free again and again eventually gets
\* it.  Nothing is asked of a reader outside its locked block: it may start
\* at any time or never, and stay in rendering or in the save dialog forever.
Fairness ==
    /\ WF_vars(HandlerRuns)
    /\ SF_vars(PmdAcquire)
    /\ SF_vars(HrAcquire)
    /\ WF_vars(PlotLocked)
    /\ WF_vars(ExportLocked)

\* one decoded waveform packet and one parsed heart-rate payload, arriving
\* any number of times up to the bounds, with both readers
PmdPayloadsLive == {Packet(0, 0, 1, 0)}
HrPayloadsLive == {<<0, 72>>}

\* the BLE thread and both readers, interleaved
NextLive ==
    \/ DeliverPmd(PmdPayloadsLive)
    \/ DeliverHr(HrPayloadsLive)
    \/ PmdAcquire
    \/ HrAcquire
    \/ HandlerRuns
    \/ PlotSteps
    \/ ExportSteps

SpecLive == Init /\ [][NextLive]_vars /\ Fairness

\* Waveform ingestion alone: every waveform payload, no reader
NextEcg ==
    \/ DeliverPmd(PmdPayloads)
    \/ PmdSteps
    \/ BleReturn

SpecEcg == Init /\ [][NextEcg]_vars

\* Heart-rate ingestion alone: every heart-rate payload, no reader
\* a session about one display window long: waveform notifications and the
\* display reader
NextWindow ==
    \/ DeliverPmd(PmdPayloadsSmall)
    \/ PmdSteps
    \/ BleReturn
    \/ PlotSteps

SpecWindow == InitWindow /\ [][NextWindow]_vars

\* acquisition under a moving clock, and the export reader
NextExport ==
    \/ DeliverPmd(PmdPayloadsSmall)
    \/ DeliverHr(HrPayloadsSmall)
    \/ PmdSteps
    \/ HrSteps
    \/ BleReturn
    \/ Tick
    \/ ExportSteps

SpecExport == Init /\ [][NextExport]_vars

\* a whole session: ble_main from connecting to leaving the client, the
\* notifications it subscribes to, and the display reader
NextSession ==
    \/ MainSteps
    \/ DeliverPmd(PmdPayloadsSmall)
    \/ DeliverHr(HrPayloadsSmall)
    \/ PmdSteps
    \/ HrSteps
    \/ BleReturn
    \/ PlotSteps

SpecSession == InitSession /\ [][NextSession]_vars

NextHr ==
    \/ DeliverHr(HrPayloads)
    \/ HrSteps
    \/ BleReturn
    \/ Tick

SpecHr == Init /\ [][NextHr]_vars

-----------------------------------------------------------------------------
(* Properties *)

Max(a, b) == IF a >= b THEN a ELSE b

\* the stores left by the calls completed so far: those already handed back to
\* the transport, and the one of a call that has just returned
CompletedStores ==
    {committed[i].store : i \in DOMAIN committed}
    \cup (IF ble_pc = "returned" THEN {Store} ELSE {})

\* the store as the call in progress found it
StoreAtEntry == Last(committed).store

PlotHoldsSnapshot == plot_pc \in {"release", "window"}
ExportHoldsSnapshot == exp_pc \in {"release", "rows", "dialog", "to_csv"}

\* C1: every snapshot a reader has taken (its copies, once all are made)
\* equals the store as some completed prefix of the notifications left it;
\* no reader holds part of a waveform packet.
C1_SnapshotsLinearizable ==
    /\ PlotHoldsSnapshot =>
          \E c \in CompletedStores :
              /\ plot_data = c.data
              /\ plot_times = c.time
              /\ plot_ble_hr = c.hr
    /\ ExportHoldsSnapshot =>
          \E c \in CompletedStores :
              /\ ecg_values = c.data
              /\ ecg_times = c.time
              /\ hr_data_local = c.log

\* a reader holds an older snapshot while pmd_data_handler is in the middle
\* of a later packet
C1_Witness ==
    /\ plot_pc = "window"
    /\ Len(plot_data) = 2
    /\ plot_ble_hr = 72
    /\ ble_pc = "pmd_time"
    /\ Len(ecg_session_data) = 3

\* C2: whenever data_lock is not held by pmd_data_handler, sample_counter,
\* len(ecg_session_data) and len(ecg_session_time) are equal.
C2_CounterMatchesLengths ==
    ~(data_lock = "ble" /\ handler = "pmd") =>
        /\ sample_counter = Len(ecg_session_data)
        /\ Len(ecg_session_time) = Len(ecg_session_data)

\* a reader is copying a store of four samples and one heart rate
C2_Witness ==
    /\ data_lock = "export"
    /\ exp_pc = "copy_values"
    /\ sample_counter = 4
    /\ Len(hr_log) = 1

\* C3: every step leaves the stored waveform, times and heart-rate log as
\* prefixes of their new values; a snapshot a reader holds is a prefix of the
\* store; and a snapshot taken while the other reader still holds an earlier
\* one extends that earlier one.
C3_StoreOnlyGrows ==
    [][ /\ IsPrefix(ecg_session_data, ecg_session_data')
        /\ IsPrefix(ecg_session_time, ecg_session_time')
        /\ IsPrefix(hr_log, hr_log')
        /\ PlotHoldsSnapshot' =>
              /\ IsPrefix(plot_data', ecg_session_data')
              /\ IsPrefix(plot_times', ecg_session_time')
        /\ ExportHoldsSnapshot' =>
              /\ IsPrefix(ecg_values', ecg_session_data')
              /\ IsPrefix(ecg_times', ecg_session_time')
              /\ IsPrefix(hr_data_local', hr_log')
        /\ (ExportHoldsSnapshot /\ ~PlotHoldsSnapshot /\ PlotHoldsSnapshot') =>
              /\ IsPrefix(ecg_values, plot_data')
              /\ IsPrefix(ecg_times, plot_times')
        /\ (PlotHoldsSnapshot /\ ~ExportHoldsSnapshot /\ ExportHoldsSnapshot') =>
              /\ IsPrefix(plot_data, ecg_values')
              /\ IsPrefix(plot_times, ecg_times')
      ]_vars

\* the export reader holds a two-sample snapshot, the display reader a later
\* four-sample one, and the log has grown since the export's copy
C3_Witness ==
    /\ exp_pc = "rows"
    /\ plot_pc = "window"
    /\ Len(ecg_values) = 2
    /\ Len(plot_data) = 4
    /\ hr_data_local = <<>>
    /\ Len(hr_log) = 1

\* samples pmd_data_handler is to decode from payload d
ExpectedSamples(d) ==
    IF d = <<>> \/ d[1] # 0 THEN 0 ELSE Max(Len(d) - SAMPLE_OFFSET, 0) \div step

RECURSIVE TotalExpected(_)
\* samples to decode from all the payloads of history h
TotalExpected(h) ==
    IF h = <<>> THEN 0
    ELSE (IF Head(h).handler = "pmd" THEN ExpectedSamples(Head(h).data) ELSE 0)
         + TotalExpected(Tail(h))

\* C4: between calls, sample_counter is the number of samples of all the
\* packets processed, however they were split, and the i-th stored time
\* (from 0) is i / SAMPLING_RATE seconds.
C4_CounterAndTimes ==
    ble_pc = "idle" =>
        /\ sample_counter = TotalExpected(committed)
        /\ Len(ecg_session_time) = sample_counter
        /\ \A i \in 1..Len(ecg_session_time) :
              ecg_session_time[i] * SAMPLING_RATE = (i - 1) * MicrosPerSecond

\* three samples that arrived as a packet of one and a packet of two
C4_Witness ==
    /\ ble_pc = "idle"
    /\ Len(committed) = 3
    /\ committed[2].store.counter = 1
    /\ sample_counter = 3
    /\ ecg_session_time = <<0, 10000, 20000>>

\* C5: a waveform call whose payload is empty or whose byte 0 is not 0x00
\* returns without raising and leaves the whole store as it found it.
C5_OtherTagsLeaveStore ==
    (ble_pc = "returned" /\ handler = "pmd" /\ (data = <<>> \/ data[1] # 0)) =>
        /\ ble_exc = "none"
        /\ Store = StoreAtEntry
        /\ data_lock = "free"

\* a payload of tag 0xFF carrying sample bytes has been ignored by a store
\* that already holds samples
C5_Witness ==
    /\ ble_pc = "returned"
    /\ handler = "pmd"
    /\ Len(data) > SAMPLE_OFFSET + step
    /\ data[1] = 255
    /\ Len(ecg_session_data) = 2

\* a 3-byte little-endian two's-complement group as an integer
TwosComplement24(b0, b1, b2) ==
    b0 + 256 * b1 + 65536 * b2 - (IF b2 >= 128 THEN 16777216 ELSE 0)

\* C6: a tag 0x00 payload of length L appends exactly floor(max(L-10,0)/3)
\* samples after those already stored, the k-th from bytes [10+3k, 10+3k+3);
\* leftover bytes are dropped and no error is raised.
C6_GroupsDecoded ==
    (ble_pc = "returned" /\ handler = "pmd" /\ data # <<>> /\ data[1] = 0) =>
        LET n    == Max(Len(data) - 10, 0) \div 3
            base == Len(StoreAtEntry.data)
        IN  /\ ble_exc = "none"
            /\ Len(ecg_session_data) = base + n
            /\ SubSeq(ecg_session_data, 1, base) = StoreAtEntry.data
            /\ \A k \in 0..(n - 1) :
                  ecg_session_data[base + k + 1] =
                      TwosComplement24(data[10 + 3 * k + 1], data[10 + 3 * k + 2],
                                       data[10 + 3 * k + 3])

\* two groups followed by two leftover bytes, appended after earlier samples
C6_Witness ==
    /\ ble_pc = "returned"
    /\ handler = "pmd"
    /\ Len(data) = SAMPLE_OFFSET + 2 * step + 2
    /\ data[1] = 0
    /\ Len(StoreAtEntry.data) = 1
    /\ Len(ecg_session_data) = 3

\* v as 3 little-endian bytes of 24-bit two's complement
Encode24(v) ==
    LET u == IF v < 0 THEN v + 16777216 ELSE v
    IN  <<u % 256, (u \div 256) % 256, u \div 65536>>

\* amplitudes the round trip is tried on
Amplitudes == {100, -50, 200, -8388608, 8388607, -1}

\* C7: decoding inverts encoding: a group that is the encoding of v is
\* stored as v, and every stored value lies in -2^23 .. 2^23 - 1 and encodes
\* back to the group it was decoded from.
C7_RoundTrip ==
    (ble_pc = "returned" /\ handler = "pmd" /\ data # <<>> /\ data[1] = 0) =>
        LET n    == Len(ecg_session_data) - Len(StoreAtEntry.data)
            base == Len(StoreAtEntry.data)
        IN  \A k \in 0..(n - 1) :
              LET group == SubSeq(data, 10 + 3 * k + 1, 10 + 3 * k + 3)
                  value == ecg_session_data[base + k + 1]
              IN  /\ \A v \in Amplitudes : group = Encode24(v) => value = v
                  /\ value \in -8388608..8388607
                  /\ Encode24(value) = group

\* [100, -50, 200] from one packet and the two extremes from the next
C7_Witness ==
    /\ ble_pc = "returned"
    /\ handler = "pmd"
    /\ ecg_session_data = <<100, -50, 200, -8388608, 8388607>>

\* a heart-rate payload with the bytes its flags call for
WellFormedHr(d) == Len(d) >= 2 /\ (d[1] % 2 = 1 => Len(d) >= 3)

\* C8: for a well-formed payload parse_heart_rate_measurement returns byte 1
\* when bit 0 of byte 0 is clear and byte1 + 256 * byte2 when it is set,
\* whatever the other bits of byte 0 are.
C8_ParseHeartRate ==
    (ble_pc = "returned" /\ handler = "hr" /\ WellFormedHr(data)) =>
        /\ ble_exc = "none"
        /\ hr = (IF data[1] % 2 = 0 THEN data[2] ELSE data[2] + 256 * data[3])
        /\ \A f \in 0..255 :
              f % 2 = data[1] % 2 =>
                  parse_heart_rate_measurement(<<f>> \o Tail(data)).value = hr

\* a 16-bit value above 255 behind flags with other bits set
C8_Witness ==
    /\ ble_pc = "returned"
    /\ handler = "hr"
    /\ data = <<17, 44, 1, 0, 4>>
    /\ hr = 300
    /\ current_ble_hr = 300

\* C9: a heart-rate payload of fewer than 2 bytes is rejected: the call
\* raises, the store is as the call found it and data_lock is free.
C9_ShortHeartRateRejected ==
    (ble_pc = "returned" /\ handler = "hr" /\ Len(data) < 2) =>
        /\ ble_exc # "none"
        /\ Store = StoreAtEntry
        /\ data_lock = "free"

\* C10: a heart-rate payload with bit 0 of byte 0 set and only 2 bytes is
\* rejected: nothing is appended to hr_log and current_ble_hr is unchanged.
C10_SixteenBitNeedsThreeBytes ==
    (ble_pc = "returned" /\ handler = "hr" /\ Len(data) = 2 /\ data[1] % 2 = 1) =>
        /\ ble_exc # "none"
        /\ hr_log = StoreAtEntry.log
        /\ current_ble_hr = StoreAtEntry.hr

\* C11: in every state a reader can observe (the heart-rate handler is not
\* inside its locked block), current_ble_hr is None exactly when hr_log is
\* empty, and otherwise it is the value of the last entry of hr_log.
C11_LatestMatchesLog ==
    ~(handler = "hr" /\ data_lock = "ble") =>
        /\ (current_ble_hr = None) <=> (hr_log = <<>>)
        /\ hr_log # <<>> => current_ble_hr = Last(hr_log)[2]

\* the display reader, inside its locked block, looks at a store that holds
\* a logged heart rate
C11_Witness ==
    /\ plot_pc = "copy_hr"
    /\ data_lock = "plot"
    /\ hr_log # <<>>
    /\ current_ble_hr = Last(hr_log)[2]
    /\ current_ble_hr > 255

PlotAfterRelease == plot_pc \in {"window", "render"}
ExportAfterRelease == exp_pc \in {"rows", "dialog", "to_csv"}

\* C12: once a reader has released data_lock, a step that is not the reader's
\* own (a notification handler's append in particular) leaves the reader's
\* data, times, heart rate and heart-rate list as they were, and a step of
\* the reader on its copies leaves the store as it was.
C12_CopiesIndependent ==
    [][ /\ (PlotAfterRelease /\ plot_pc' = plot_pc) =>
               UNCHANGED <<plot_data, plot_times, plot_ble_hr>>
        /\ (ExportAfterRelease /\ exp_pc' = exp_pc) =>
               UNCHANGED <<ecg_times, ecg_values, hr_data_local, rows>>
        /\ (PlotAfterRelease /\ plot_pc' # plot_pc) => UNCHANGED store_vars
        /\ (ExportAfterRelease /\ exp_pc' # exp_pc) => UNCHANGED store_vars
      ]_vars

\* both readers hold copies taken before the store grew: the store has more
\* samples than the display's copy and more log entries than the export's
C12_Witness ==
    /\ plot_pc = "window"
    /\ plot_data # <<>>
    /\ Len(plot_data) < Len(ecg_session_data)
    /\ Len(plot_times) < Len(ecg_session_time)
    /\ exp_pc = "dialog"
    /\ Len(hr_data_local) < Len(hr_log)

\* C13: window_size is SAMPLING_RATE * 10; for a snapshot of n samples the
\* windowing step leaves data and times each with min(n, window_size)
\* elements, which are the last min(n, window_size) elements of the snapshot
\* at the same positions in both.
C13_WindowIsSuffix ==
    [][ (plot_pc = "window" /\ plot_pc' = "render") =>
            LET n == Len(plot_data)
                m == IF n < SAMPLING_RATE * 10 THEN n ELSE SAMPLING_RATE * 10
            IN  /\ window_size = SAMPLING_RATE * 10
                /\ Len(plot_data') = m
                /\ Len(plot_times') = m
                /\ \A j \in 1..m :
                      /\ plot_data'[j] = plot_data[n - m + j]
                      /\ plot_times'[j] = plot_times[n - m + j]
      ]_vars

\* the display holds a full window cut from a longer snapshot: its first
\* sample is not the session's first
C13_Witness ==
    /\ plot_pc = "render"
    /\ Len(plot_data) = SAMPLING_RATE * 10
    /\ Len(plot_times) = SAMPLING_RATE * 10
    /\ plot_times[1] > 0

ExportHoldsRows == exp_pc \in {"dialog", "to_csv"}

IsEcgRow(r) == r.source = "ECG"
IsHrRow(r) == r.source = "Heart Rate"

\* C14: the exported rows are in non-decreasing order of the instant their
\* timestamp denotes; rows with equal timestamps keep their input order, the
\* ECG rows before the heart-rate rows; the rows are the snapshot's ECG rows
\* and heart-rate rows, each kind in its input order, so one snapshot has one
\* exported sequence.
C14_RowsSortedStable ==
    ExportHoldsRows =>
        /\ \A i, j \in DOMAIN rows :
              i < j =>
                 /\ to_datetime(rows[i].timestamp) <= to_datetime(rows[j].timestamp)
                 /\ to_datetime(rows[i].timestamp) = to_datetime(rows[j].timestamp)
                       => ~(IsHrRow(rows[i]) /\ IsEcgRow(rows[j]))
        /\ SelectSeq(rows, IsEcgRow) = EcgRows(ecg_times, ecg_values)
        /\ SelectSeq(rows, IsHrRow) = HrRows(hr_data_local)

\* a heart-rate row with the same timestamp as the ECG row before it, and
\* more ECG rows behind it
C14_Witness ==
    /\ exp_pc = "to_csv"
    /\ \E i \in DOMAIN rows :
          /\ i + 2 \in DOMAIN rows
          /\ IsEcgRow(rows[i])
          /\ IsHrRow(rows[i + 1])
          /\ IsEcgRow(rows[i + 2])
          /\ to_datetime(rows[i].timestamp) = to_datetime(rows[i + 1].timestamp)

\* the number of heart-rate rows among the first j exported rows
HrRowsUpTo(j) == Len(SelectSeq(SubSeq(rows, 1, j), IsHrRow))

\* C15: each heart-rate event is exported with the time it was observed as
\* its timestamp, behind every ECG row whose absolute time is earlier than
\* that time and ahead of every ECG row whose absolute time is later.
C15_HeartRateRowAtObservedTime ==
    ExportHoldsRows =>
        \A j \in DOMAIN rows :
            IsHrRow(rows[j]) =>
                LET seen == observed[HrRowsUpTo(j)]
                IN  /\ to_datetime(rows[j].timestamp) = seen
                    /\ \A i \in DOMAIN rows :
                          IsEcgRow(rows[i]) =>
                             /\ to_datetime(rows[i].timestamp) < seen => i < j
                             /\ to_datetime(rows[i].timestamp) > seen => j < i

\* C16: an export whose snapshot has no sample and no heart-rate event fails
\* with EmptySession: it builds no row set, shows no dialog and hands nothing
\* to the file (or download) collaborator.
C16_EmptySessionNotExported ==
    (ecg_times = <<>> /\ ecg_values = <<>> /\ hr_data_local = <<>>) =>
        exp_pc \notin {"dialog", "to_csv"}

\* ble_main has run stop_notify for both characteristics and left the client
AcquisitionStopped == main_pc \in {"clear_flag", "done"}

C19_LockOnlyAroundStore ==
    /\ plot_pc \in {"window", "render"} => data_lock # "plot"
    /\ exp_pc \in {"rows", "dialog", "to_csv"} => data_lock # "export"
    /\ ble_pc = "idle" => data_lock # "ble"

\* the display is rendering and the export is writing its file while a
\* handler call appends under the lock
C19_Witness ==
    /\ plot_pc = "render"
    /\ exp_pc = "to_csv"
    /\ data_lock = "ble"
    /\ ble_pc = "pmd_time"

\* a thread holding data_lock can take its next step
HolderCanStep ==
    /\ data_lock = "ble" => ENABLED (PmdSteps \/ HrSteps)
    /\ data_lock = "plot" => ENABLED PlotSteps
    /\ data_lock = "export" => ENABLED ExportSteps

\* C20: under fair scheduling of the lock every delivered notification is
\* handled to the end: a waveform call returns with all of its payload's
\* samples appended, a heart-rate call that parsed returns with its entry
\* logged, whatever the readers do after their snapshots; and the holder of
\* the lock can always go on, so no thread waits for ever.
C20_AcquisitionProgresses ==
    /\ (ble_pc = "pmd_entry") ~>
           (/\ ble_pc = "returned"
            /\ sample_counter = StoreAtEntry.counter + ExpectedSamples(data))
    /\ (ble_pc = "hr_parse") ~>
           (/\ ble_pc = "returned"
            /\ ble_exc = "none" => Len(hr_log) = Len(StoreAtEntry.log) + 1)
    /\ [](ble_pc = "returned" ~> ble_pc = "idle")
    /\ []HolderCanStep

\* a handler call waits for the lock the export holds while the display is
\* still rendering an earlier snapshot
C20_Witness ==
    /\ ble_pc = "pmd_lock"
    /\ data_lock = "export"
    /\ plot_pc = "render"

\* the client context of ble_main is open, or ble_main is between its end
\* and the next statement
ContextOpen ==
    main_pc \in {"write_ecg", "start_pmd", "start_hr", "loop", "stop_pmd",
                 "stop_hr", "exit", "clear_flag"}

\* ble_main has ended, by returning or by an exception
SessionEnded == main_pc \in {"done", "failed"}

\* C21: ble_connected is True only while the client context of ble_main is
\* open; once ble_main has ended, by returning or because write_gatt_char,
\* start_notify or stop_notify raised, the flag is False, and a display
\* update rendering then does not show a measured heart rate.
C21_FlagTracksSession ==
    /\ ble_connected => ContextOpen
    /\ SessionEnded => ~ble_connected
    /\ (SessionEnded /\ plot_pc = "render") => ~LabelShowsMeasured

====
